---- MODULE Spec2Model ----
(***************************************************************************)
(* Model of reboot_if_no_internet.py: one run of main() after the argument *)
(* parser and logging.basicConfig have returned (lines 63-89), the probe   *)
(* has_internet (lines 12-36) and the reboot trigger reboot_now (38-48).   *)
(*                                                                         *)
(* Durations (--timeout, --wait) are counted in tenths of a second, so     *)
(* that fractional values and the ties of round() are representable.       *)
(* Everything the run does to the outside world (log records, lines on     *)
(* stdout, external commands, socket connects, sleeps, returns of          *)
(* has_internet) is appended, in program order, to `trace`.                *)
(***************************************************************************)
EXTENDS Integers, Sequences, FiniteSets

(* ---------------------------- bounds ---------------------------------- *)

\* largest --tries value explored
MaxTries == 3

(* ---------------------------- inputs ---------------------------------- *)

\* --tries (argparse type=int accepts any integer, also 0 and negatives)
TriesValues == (0 - 1) .. MaxTries

\* --wait in tenths of a second; RetryPolicy.interAttemptWait is a duration >= 0
WaitValues == {0, 50}

\* --port (argparse type=int); 0 is the "unset" value of `port or 53`
PortValues == {0, 53, 8080}

Num(t) == [kind |-> "num", tenths |-> t]
NaN == [kind |-> "nan", tenths |-> 0]
Inf == [kind |-> "inf", tenths |-> 0]
NoTimeout == [kind |-> "none", tenths |-> 0]

\* --timeout (argparse type=float): 3.0 (default), 0.4, 0.5, 1.5, 1.7, 2.5,
\* 0.0, -1.0 and the two floats that cannot be rounded to an int
TimeoutValues ==
    {Num(30), Num(4), Num(5), Num(15), Num(17), Num(25), Num(0), Num(0 - 10), NaN, Inf}

\* what getattr(os, "geteuid", None) or getattr(os, "getuid", None) finds
EuidFuncs == {"geteuid", "getuid", "none"}

\* what calling it does: returns 0, returns another uid, raises
EuidOutcomes == {"zero", "nonzero", "raise"}

VARIABLES
    tries,        \* args.tries
    wait,         \* args.wait (tenths of a second)
    timeout,      \* args.timeout
    port,         \* args.port
    dry_run,      \* args.dry_run
    euid_func,    \* the privilege-query capability of the platform
    euid_out,     \* the outcome of calling it
    is_root,      \* local is_root of main
    attempt,      \* loop variable of main (0: not yet bound)
    ret,          \* value returned by the last has_internet call
    pc,           \* position in the program
    exit_status,  \* process exit status (-1 while running)
    exc,          \* exception that left main uncaught ("none" otherwise)
    trace         \* observable effects in program order

vars == <<tries, wait, timeout, port, dry_run, euid_func, euid_out, is_root,
          attempt, ret, pc, exit_status, exc, trace>>

args == <<tries, wait, timeout, port, dry_run, euid_func, euid_out>>

(* ---------------------------- trace ----------------------------------- *)

\* ch: "log" (record in LOGFILE), "out" (line on stdout), "call" (call of
\* has_internet, or of something outside the program), "ret" (return of
\* has_internet); a, b: integer arguments; t: timeout argument; o: what the
\* outside world answered to a call
Ev(ch, what, a, b, t, o) ==
    [ch |-> ch, what |-> what, a |-> a, b |-> b, t |-> t, o |-> o]

Log(what, a, b) == Ev("log", what, a, b, NoTimeout, "")
Out(what) == Ev("out", what, 0, 0, NoTimeout, "")
Call(what, a, o) == Ev("call", what, a, 0, NoTimeout, o)
Ret(b) == Ev("ret", "has_internet", IF b THEN 1 ELSE 0, 0, NoTimeout, "")

Is(e, ch, what) == e.ch = ch /\ e.what = what

Sel(ch, what) == SelectSeq(trace, LAMBDA e : Is(e, ch, what))

Count(ch, what) == Len(Sel(ch, what))

Idx(ch, what) == {i \in 1 .. Len(trace) : Is(trace[i], ch, what)}

(* ------------------------- pure helpers ------------------------------- *)

\* Python round() of a float given in tenths: nearest integer, ties to even
Round(t) ==
    LET q == t \div 10
        r == t % 10
    IN  IF r < 5 THEN q
        ELSE IF r > 5 THEN q + 1
        ELSE IF q % 2 = 0 THEN q ELSE q + 1

Max(a, b) == IF a >= b THEN a ELSE b

wait_secs_Truncated(t) == IF t.kind = "num" THEN Max(1, t.tenths \div 10) ELSE 1

\* lines 19-22: max(1, int(round(timeout))), 1 when round/int raises
wait_secs(t) == IF t.kind = "num" THEN Max(1, Round(t.tenths)) ELSE 1

probe_port_NoDefault(p) == p

\* line 32: port or 53
probe_port(p) == IF p = 0 THEN 53 ELSE p

GateBlocks_Never(root, dry) == FALSE

GateBlocks_DryRunOnly(root, dry) == ~root /\ dry

\* line 73: the privilege gate refuses the run
GateBlocks(root, dry) == ~root /\ ~dry

HasNext_OffByOne(a, n) == a <= n

\* line 79: range(1, tries + 1) has a next element after `a`
HasNext(a, n) == a + 1 <= n

ShouldSleep_AfterLast(a, n) == a <= n

\* line 85: a wait follows the failed attempt
ShouldSleep(a, n) == a < n

(* ---------------------------- Init ------------------------------------ *)

Init ==
    /\ tries \in TriesValues
    /\ wait \in WaitValues
    /\ timeout \in TimeoutValues
    /\ port \in PortValues
    /\ dry_run \in BOOLEAN
    /\ euid_func \in EuidFuncs
    /\ euid_out \in EuidOutcomes
    /\ is_root = FALSE
    /\ attempt = 0
    /\ ret = FALSE
    /\ pc = "privilege"
    /\ exit_status = 0 - 1
    /\ exc = "none"
    /\ trace = <<>>

(* --------------------------- main: gate ------------------------------- *)

DetermineRoot_RaiseIsRoot ==
    /\ pc = "privilege"
    /\ is_root' = (euid_func # "none" /\ euid_out # "nonzero")
    /\ pc' = "gate"
    /\ UNCHANGED <<args, attempt, ret, exit_status, exc, trace>>

\* lines 65-71
DetermineRoot ==
    /\ pc = "privilege"
    /\ is_root' = (euid_func # "none" /\ euid_out = "zero")
    /\ pc' = "gate"
    /\ UNCHANGED <<args, attempt, ret, exit_status, exc, trace>>

\* lines 73-75
GateRefuse ==
    /\ pc = "gate"
    /\ GateBlocks(is_root, dry_run)
    /\ trace' = Append(trace, Out("root_required"))
    /\ exit_status' = 2
    /\ pc' = "done"
    /\ UNCHANGED <<args, is_root, attempt, ret, exc>>

\* lines 73, 77
GatePass ==
    /\ pc = "gate"
    /\ ~GateBlocks(is_root, dry_run)
    /\ trace' = Append(trace, Log("start", port, tries))
    /\ pc' = "loop"
    /\ UNCHANGED <<args, is_root, attempt, ret, exit_status, exc>>

(* --------------------------- main: loop ------------------------------- *)

\* line 79, next element of range(1, tries + 1); line 80, the call
LoopNext ==
    /\ pc = "loop"
    /\ HasNext(attempt, tries)
    /\ attempt' = attempt + 1
    /\ trace' = Append(trace, Call("has_internet", attempt + 1, ""))
    /\ pc' = "ping"
    /\ UNCHANGED <<args, is_root, ret, exit_status, exc>>

\* line 79, range exhausted; line 88, the call of reboot_now
LoopExhausted ==
    /\ pc = "loop"
    /\ ~HasNext(attempt, tries)
    /\ pc' = "reboot_now"
    /\ UNCHANGED <<args, is_root, attempt, ret, exit_status, exc, trace>>

(* --------------------------- has_internet ----------------------------- *)

\* what subprocess.run(["ping", ...]) can do: exit 0, exit non-zero, raise
\* FileNotFoundError (no ping binary), raise another OSError (for instance
\* PermissionError: the binary is there and cannot be executed)
PingOutcomes == {"reply", "noreply", "notfound", "oserror"}

\* lines 19-29
Ping ==
    /\ pc = "ping"
    /\ \E o \in PingOutcomes :
        /\ trace' = IF o \in {"reply", "noreply"}
                    THEN trace \o <<Call("ping", wait_secs(timeout), o), Ret(o = "reply")>>
                    ELSE Append(trace, Call("ping", wait_secs(timeout), o))
        /\ ret' = IF o \in {"reply", "noreply"} THEN o = "reply" ELSE ret
        /\ pc' = CASE o \in {"reply", "noreply"} -> "returned"
                   [] o = "notfound" -> "tcp"
                   [] OTHER -> "done"
        /\ exc' = IF o = "oserror" THEN "PermissionError" ELSE exc
        /\ exit_status' = IF o = "oserror" THEN 1 ELSE exit_status
    /\ UNCHANGED <<args, is_root, attempt>>

\* socket.settimeout accepts the value: a float >= 0
TimeoutAccepted(t) == t.kind = "num" /\ t.tenths >= 0

\* what socket.create_connection((host, port), timeout=t) can do: connect,
\* raise an OSError (refused, timed out, unreachable, name resolution; with
\* t = 0 the socket is non-blocking and connect raises BlockingIOError), or,
\* once the address is resolved, raise from settimeout(t): ValueError for a
\* negative or NaN t, OverflowError for an infinite t
TcpOutcomes(t) ==
    {"oserror"}
        \cup (IF TimeoutAccepted(t) /\ t.tenths > 0 THEN {"connected"} ELSE {})
        \cup (IF ~TimeoutAccepted(t) THEN {"raise"} ELSE {})

SetTimeoutError(t) == IF t.kind = "inf" THEN "OverflowError" ELSE "ValueError"

\* lines 29-36
TcpConnect ==
    /\ pc = "tcp"
    /\ \E o \in TcpOutcomes(timeout) :
        /\ trace' = IF o = "raise"
                    THEN Append(trace, Ev("call", "tcp", probe_port(port), 0, timeout, o))
                    ELSE trace \o <<Ev("call", "tcp", probe_port(port), 0, timeout, o),
                                    Ret(o = "connected")>>
        /\ ret' = IF o = "raise" THEN ret ELSE o = "connected"
        /\ pc' = IF o = "raise" THEN "done" ELSE "returned"
        /\ exc' = IF o = "raise" THEN SetTimeoutError(timeout) ELSE exc
        /\ exit_status' = IF o = "raise" THEN 1 ELSE exit_status
    /\ UNCHANGED <<args, is_root, attempt>>

(* ----------------------- main: after the probe ------------------------ *)

AttemptSuccess_FallThrough ==
    /\ pc = "returned"
    /\ ret
    /\ trace' = trace \o <<Log("available", attempt, 0), Out("available")>>
    /\ pc' = "reboot_now"
    /\ UNCHANGED <<args, is_root, attempt, ret, exit_status, exc>>

AttemptSuccess_NoReturn ==
    /\ pc = "returned"
    /\ ret
    /\ trace' = trace \o <<Log("available", attempt, 0), Out("available")>>
    /\ pc' = "loop"
    /\ UNCHANGED <<args, is_root, attempt, ret, exit_status, exc>>

\* lines 80-83
AttemptSuccess ==
    /\ pc = "returned"
    /\ ret
    /\ trace' = trace \o <<Log("available", attempt, 0), Out("available")>>
    /\ exit_status' = 0
    /\ pc' = "done"
    /\ UNCHANGED <<args, is_root, attempt, ret, exc>>

AttemptFailure_NoRecord ==
    /\ pc = "returned"
    /\ ~ret
    /\ pc' = IF ShouldSleep(attempt, tries) THEN "sleep" ELSE "loop"
    /\ UNCHANGED <<args, is_root, attempt, ret, exit_status, exc, trace>>

\* lines 80, 84, 85
AttemptFailure ==
    /\ pc = "returned"
    /\ ~ret
    /\ trace' = Append(trace, Log("unreachable", attempt, tries))
    /\ pc' = IF ShouldSleep(attempt, tries) THEN "sleep" ELSE "loop"
    /\ UNCHANGED <<args, is_root, attempt, ret, exit_status, exc>>

\* line 86
Sleep ==
    /\ pc = "sleep"
    /\ trace' = Append(trace, Call("sleep", wait, ""))
    /\ pc' = "loop"
    /\ UNCHANGED <<args, is_root, attempt, ret, exit_status, exc>>

(* ----------------------------- reboot_now ----------------------------- *)

\* lines 39-43 (and 89 in dry-run mode)
RebootLog ==
    /\ pc = "reboot_now"
    /\ trace' = IF dry_run
                THEN trace \o <<Log("reboot", 0, 0), Out("dry_run_reboot")>>
                ELSE Append(trace, Log("reboot", 0, 0))
    /\ pc' = IF dry_run THEN "done" ELSE "systemctl"
    /\ exit_status' = IF dry_run THEN 0 ELSE exit_status
    /\ UNCHANGED <<args, is_root, attempt, ret, exc>>

\* what subprocess.run of a reboot command can do: exit 0, exit non-zero,
\* raise FileNotFoundError (no such command)
CmdOutcomes == {"ok", "nonzero", "notfound"}

Systemctl_NoCheck ==
    /\ pc = "systemctl"
    /\ \E o \in CmdOutcomes :
        /\ trace' = Append(trace, Call("systemctl", 0, o))
        /\ pc' = IF o \in {"ok", "nonzero"} THEN "done" ELSE "fallback"
        /\ exit_status' = IF o \in {"ok", "nonzero"} THEN 0 ELSE exit_status
    /\ UNCHANGED <<args, is_root, attempt, ret, exc>>

\* lines 45-47 (and 89 when the command succeeds); check=True turns a
\* non-zero exit into CalledProcessError, and every Exception is caught
Systemctl ==
    /\ pc = "systemctl"
    /\ \E o \in CmdOutcomes :
        /\ trace' = Append(trace, Call("systemctl", 0, o))
        /\ pc' = IF o = "ok" THEN "done" ELSE "fallback"
        /\ exit_status' = IF o = "ok" THEN 0 ELSE exit_status
    /\ UNCHANGED <<args, is_root, attempt, ret, exc>>

\* line 48 (and 89): no check=True, so a non-zero exit is ignored; the call
\* is made inside the except clause, so an exception of its own leaves
\* reboot_now and main
RebootFallback ==
    /\ pc = "fallback"
    /\ \E o \in CmdOutcomes :
        /\ trace' = Append(trace, Call("reboot", 0, o))
        /\ pc' = "done"
        /\ exc' = IF o = "notfound" THEN "FileNotFoundError" ELSE exc
        /\ exit_status' = IF o = "notfound" THEN 1 ELSE 0
    /\ UNCHANGED <<args, is_root, attempt, ret>>

Next ==
    \/ DetermineRoot
    \/ GateRefuse
    \/ GatePass
    \/ LoopNext
    \/ LoopExhausted
    \/ Ping
    \/ TcpConnect
    \/ AttemptSuccess
    \/ AttemptFailure
    \/ Sleep
    \/ RebootLog
    \/ Systemctl
    \/ RebootFallback

Spec == Init /\ [][Next]_vars

\* the program is one sequential flow of control: a step that is enabled
\* is eventually taken
FairSpec == Spec /\ WF_vars(Next)

(* ---------------------------- type invariant -------------------------- *)

TypeOK ==
    /\ tries \in TriesValues
    /\ pc \in {"privilege", "gate", "loop", "ping", "tcp", "returned", "sleep",
               "reboot_now", "systemctl", "fallback", "done"}
    /\ exit_status \in {0 - 1, 0, 1, 2}
    /\ attempt \in 0 .. MaxTries
    /\ ret \in BOOLEAN

(* ------------------------- derived observations ----------------------- *)

\* the booleans has_internet has returned so far, as 1/0 events
Rets == Sel("ret", "has_internet")

\* the sleeps performed so far
Waits == Sel("call", "sleep")

\* number of has_internet calls made so far
ProbeCalls == Count("call", "has_internet")

\* number of has_internet calls among the first i events
ProbeCallsUpTo(i) == Cardinality({j \in 1 .. i : Is(trace[j], "call", "has_internet")})

\* every attempt of the range has been made and has returned false
AllFailed == Len(Rets) = tries /\ \A i \in 1 .. Len(Rets) : Rets[i].a = 0

\* reboot_now has been called
RebootEntered ==
    \/ pc \in {"reboot_now", "systemctl", "fallback"}
    \/ Count("log", "reboot") > 0

Done == pc = "done"

(* ------------------------------ C1 ------------------------------------ *)

\* C1: with tries >= 1, when has_internet returns true for the first time on
\* its k-th call (false on calls 1..k-1), the loop has called it exactly k
\* times, nothing is called after that return (no probe, no ping, no
\* connect, no sleep, no reboot command), success is reported for attempt k,
\* and the run ends with exit status 0.
Thm_C1 ==
    tries >= 1 =>
        \A i \in Idx("ret", "has_internet") :
            trace[i].a = 1 =>
                LET k == ProbeCallsUpTo(i)
                IN  /\ k \in 1 .. tries
                    /\ ProbeCalls = k
                    /\ Len(Rets) = k
                    /\ \A j \in 1 .. (k - 1) : Rets[j].a = 0
                    /\ \A j \in (i + 1) .. Len(trace) : trace[j].ch \notin {"call", "ret"}
                    /\ pc \in {"returned", "done"}
                    /\ Done =>
                        /\ exit_status = 0
                        /\ exc = "none"
                        /\ Sel("log", "available") = <<Log("available", k, 0)>>

\* a finished run of three attempts: false, false, true
Wit_C1 ==
    /\ Done
    /\ tries = 3
    /\ Len(Rets) = 3
    /\ Rets[1].a = 0 /\ Rets[2].a = 0 /\ Rets[3].a = 1
    /\ exit_status = 0

(* ------------------------------ C2 ------------------------------------ *)

\* C2: with tries >= 1, once has_internet has returned false on every
\* attempt it has been called exactly tries times and exactly tries - 1
\* sleeps were made, each of args.wait; reboot_now is entered only in that
\* situation.
Thm_C2 ==
    tries >= 1 =>
        /\ AllFailed =>
            /\ ProbeCalls = tries
            /\ Len(Waits) = tries - 1
            /\ \A i \in 1 .. Len(Waits) : Waits[i].a = wait
        /\ RebootEntered => AllFailed

\* three failed attempts, two sleeps of 5 s, reboot_now about to run
Wit_C2 ==
    /\ pc = "reboot_now"
    /\ tries = 3
    /\ wait = 50
    /\ AllFailed
    /\ Len(Waits) = 2

(* ------------------------------ C3 ------------------------------------ *)

\* what reboot_now has done so far: the events after the last probe event
\* (or after the check-start record when no probe was made)
TriggerEffects ==
    LET before == {i \in 1 .. Len(trace) :
                      \/ trace[i].ch \in {"call", "ret"} /\ trace[i].what \in {"has_internet", "ping", "tcp", "sleep"}
                      \/ Is(trace[i], "log", "start")
                      \/ Is(trace[i], "log", "unreachable")}
        last == IF before = {} THEN 0 ELSE CHOOSE i \in before : \A j \in before : j <= i
    IN  SubSeq(trace, last + 1, Len(trace))

\* the dry-run notice: the warning in the log and its "[dry-run]" line on stdout
DryRunRecord == <<Log("reboot", 0, 0), Out("dry_run_reboot")>>

\* C3, first part: in dry-run mode neither `systemctl reboot --force` nor
\* `reboot -f` is ever run, whatever the privilege state and the probes do.
Lem_C3_NoRealReboot ==
    dry_run => Count("call", "systemctl") = 0 /\ Count("call", "reboot") = 0

\* C3: in dry-run mode no reboot command is ever run, every finished run has
\* exit status 0, and a finished run whose probes all failed has, as the
\* whole effect of reboot_now, the one dry-run notice.
Cex_C3 ==
    dry_run =>
        /\ Count("call", "systemctl") = 0
        /\ Count("call", "reboot") = 0
        /\ Done => exit_status = 0
        /\ Done /\ AllFailed => TriggerEffects = DryRunRecord

(* ------------------------------ C4 ------------------------------------ *)

\* C4: not dry-run and not root: whatever tries is, the step after the gate
\* check is the end of the run with exit status 2; the refusal line on
\* stdout is all the run has done (no probe, no sleep, no reboot command).
Thm_C4 ==
    (~dry_run /\ ~is_root /\ pc \notin {"privilege", "gate"}) =>
        /\ Done
        /\ exit_status = 2
        /\ exc = "none"
        /\ trace = <<Out("root_required")>>
        /\ ProbeCalls = 0
        /\ Len(Waits) = 0
        /\ Count("call", "systemctl") = 0 /\ Count("call", "reboot") = 0

\* a refused run that was asked for three attempts by a non-root user
Wit_C4 ==
    /\ Done
    /\ exit_status = 2
    /\ ~dry_run
    /\ euid_out = "nonzero"
    /\ tries = 3

(* ------------------------------ C5 ------------------------------------ *)

\* C5, termination part: every run ends.
Lem_C5_Terminates == <>Done

\* C5: a finished run has exit status 2 exactly when it is neither root nor
\* dry-run, and 0 otherwise.
Cex_C5 ==
    Done => exit_status = (IF ~is_root /\ ~dry_run THEN 2 ELSE 0)

(* ------------------------------ C6 ------------------------------------ *)

\* C6: in a real reboot, once `reboot -f` has been tried (after the failure
\* of systemctl), the run ends with exit status 0 and no exception, whatever
\* `reboot -f` did, also when the command does not exist.
Cex_C6 ==
    (~dry_run /\ Count("call", "reboot") > 0) =>
        /\ Done
        /\ exit_status = 0
        /\ exc = "none"

(* ------------------------------ C7 ------------------------------------ *)

\* C7: in a real reboot systemctl is run first and once; `reboot -f` is run
\* exactly when systemctl exited non-zero or could not be started, and then
\* once; the failure of systemctl leaves no exception behind; after a
\* successful systemctl the run ends without `reboot -f`.
Thm_C7 ==
    LET sys == Idx("call", "systemctl")
        fb == Idx("call", "reboot")
    IN  /\ Cardinality(sys) <= 1 /\ Cardinality(fb) <= 1
        /\ (sys # {} \/ fb # {}) => ~dry_run
        /\ (~dry_run /\ Count("log", "reboot") > 0 /\ pc # "systemctl") => sys # {}
        /\ \A j \in fb : \E i \in sys : i < j /\ trace[i].o # "ok"
        /\ \A i \in sys :
            /\ trace[i].o = "ok" => fb = {} /\ Done /\ exit_status = 0 /\ exc = "none"
            /\ trace[i].o # "ok" => \/ pc = "fallback" /\ fb = {} /\ exc = "none"
                                    \/ Done /\ fb # {}
        /\ \A i \in sys : \A j \in Idx("call", "has_internet") \cup Idx("call", "sleep") : j < i

\* systemctl is not installed, `reboot -f` is run and exits 0
Wit_C7 ==
    /\ Done
    /\ \E i \in Idx("call", "systemctl") : trace[i].o = "notfound"
    /\ \E j \in Idx("call", "reboot") : trace[j].o = "ok"

(* ------------------------------ C8 ------------------------------------ *)

\* C8: has_internet never raises: every call of it that is over has returned
\* a boolean, and false unless ping replied or the connect succeeded.
Cex_C8 ==
    pc \notin {"ping", "tcp"} =>
        /\ Len(Rets) = ProbeCalls
        /\ \A i \in Idx("ret", "has_internet") :
            trace[i].a = (IF trace[i - 1].o \in {"reply", "connected"} THEN 1 ELSE 0)

(* ------------------------------ C9 ------------------------------------ *)

\* ping was started and exited
PingRan(e) == e.o \in {"reply", "noreply"}

\* C9: in each probe the connect is made exactly when ping could not be
\* started; after a ping that ran, has_internet returns ping's verdict at
\* once; after a ping that could not be started, it returns the connect's
\* verdict; so every probe yields one boolean.
Cex_C9 ==
    /\ \A i \in Idx("call", "ping") :
        /\ PingRan(trace[i]) =>
            /\ i + 1 <= Len(trace)
            /\ trace[i + 1] = Ret(trace[i].o = "reply")
        /\ (~PingRan(trace[i]) /\ pc # "tcp") =>
            /\ i + 2 <= Len(trace)
            /\ Is(trace[i + 1], "call", "tcp")
            /\ trace[i + 2] = Ret(trace[i + 1].o = "connected")
    /\ \A j \in Idx("call", "tcp") :
        Is(trace[j - 1], "call", "ping") /\ ~PingRan(trace[j - 1])

\* C9, the part that holds: the connect is made only after ping raised
\* FileNotFoundError, and its verdict, when it has one, is what has_internet
\* returns.
Lem_C9_FallbackOnlyWhenNotFound ==
    \A j \in Idx("call", "tcp") :
        /\ Is(trace[j - 1], "call", "ping") /\ trace[j - 1].o = "notfound"
        /\ trace[j].o # "raise" => j + 1 <= Len(trace) /\ trace[j + 1] = Ret(trace[j].o = "connected")

(* ------------------------------ C10 ----------------------------------- *)

\* C10: a run refused by the gate (exit status 2) has written a record to
\* the log.
Cex_C10 ==
    (Done /\ exit_status = 2) => \E i \in 1 .. Len(trace) : trace[i].ch = "log"

(* ------------------------------ C11 ----------------------------------- *)

\* C11: is_root is true only when geteuid (else getuid) exists and returns
\* 0, and false when neither exists or the call raises; the gate is decided
\* once, before the run has done anything else (nothing is logged, printed
\* or called until it is decided, and it is never reached again); it refuses
\* exactly the runs that are neither root nor dry-run, so never a dry run.
Thm_C11 ==
    /\ pc # "privilege" =>
        /\ is_root <=> (euid_func \in {"geteuid", "getuid"} /\ euid_out = "zero")
        /\ (euid_func = "none" \/ euid_out = "raise") => ~is_root
    /\ pc \in {"privilege", "gate"} <=> trace = <<>>
    /\ trace # <<>> =>
        /\ \/ trace[1] = Out("root_required")
           \/ trace[1] = Log("start", port, tries)
        /\ trace[1] = Out("root_required") <=> (~is_root /\ ~dry_run)
        /\ \A i \in 2 .. Len(trace) : ~Is(trace[i], "out", "root_required") /\ ~Is(trace[i], "log", "start")
    /\ dry_run => exit_status # 2 /\ Count("out", "root_required") = 0

\* geteuid exists and raises: the run is refused as unprivileged
Wit_C11 ==
    /\ Done
    /\ euid_func = "geteuid"
    /\ euid_out = "raise"
    /\ ~dry_run
    /\ exit_status = 2

(* ------------------------------ C12 ----------------------------------- *)

\* C12: in every state, has_internet has been called at most tries times
\* (tries >= 1; not at all for tries < 1); every sleep comes right after a
\* has_internet call that returned false (only that attempt's failure
\* record lies between) and is followed by the next has_internet call, with
\* nothing in between; so no sleep follows the last attempt made, and a run
\* that is over (or has entered reboot_now) after at least one probe has
\* made one sleep less than probes.
Thm_C12 ==
    /\ tries >= 1 => ProbeCalls <= tries
    /\ tries < 1 => ProbeCalls = 0
    /\ \A i \in Idx("call", "sleep") :
        /\ i >= 3
        /\ trace[i - 1] = Log("unreachable", trace[i - 1].a, tries)
        /\ trace[i - 2] = Ret(FALSE)
        /\ IF i < Len(trace)
           THEN Is(trace[i + 1], "call", "has_internet")
           ELSE pc = "loop" /\ attempt < tries
    /\ ((Done \/ RebootEntered) /\ ProbeCalls >= 1) => Len(Waits) = ProbeCalls - 1

\* a finished run whose third and last attempt succeeded: three probes, two sleeps
Wit_C12 ==
    /\ Done
    /\ tries = 3
    /\ ProbeCalls = 3
    /\ Len(Waits) = 2
    /\ Len(Rets) = 3
    /\ Rets[3].a = 1
    /\ wait = 50

(* ------------------------------ C13 ----------------------------------- *)

\* the gate let the run through (the check-start record follows it at once)
GatePassed == Count("log", "start") = 1

\* no has_internet call has returned true
NoneReachable == \A i \in 1 .. Len(Rets) : Rets[i].a = 0

\* every has_internet call made has returned
AllReturned == Len(Rets) = ProbeCalls

\* C13: reboot_now is entered only after the gate was passed and the loop
\* ran out with every probe returning false (tries of them for tries >= 1);
\* a finished run that passed the gate and got false from all its probes
\* has entered reboot_now; once a probe has returned true, reboot_now is
\* never entered, no reboot command is run, no reboot record is logged or
\* printed, and the run ends with exit status 0.
Thm_C13 ==
    /\ RebootEntered =>
        /\ GatePassed
        /\ NoneReachable
        /\ AllReturned
        /\ tries >= 1 => ProbeCalls = tries
        /\ tries < 1 => ProbeCalls = 0
    /\ (Done /\ GatePassed /\ NoneReachable /\ AllReturned) => Count("log", "reboot") = 1
    /\ ~NoneReachable =>
        /\ ~RebootEntered
        /\ Count("call", "systemctl") = 0 /\ Count("call", "reboot") = 0
        /\ Count("log", "reboot") = 0 /\ Count("out", "dry_run_reboot") = 0
        /\ pc \in {"returned", "done"}
        /\ Done => exit_status = 0 /\ exc = "none"

\* tries = 3, wait = 0, probes false, false, true: two sleeps of 0 s, exit
\* status 0, nothing of reboot_now
Wit_C13 ==
    /\ Done
    /\ tries = 3
    /\ wait = 0
    /\ Len(Rets) = 3
    /\ Rets[1].a = 0 /\ Rets[2].a = 0 /\ Rets[3].a = 1
    /\ Len(Waits) = 2
    /\ exit_status = 0
    /\ Count("log", "reboot") = 0

(* ------------------------------ C14 ----------------------------------- *)

\* C14: whatever --tries is, reboot_now is entered only after at least one
\* has_internet call was made and returned false.
Cex_C14 ==
    RebootEntered => \E i \in 1 .. Len(Rets) : Rets[i].a = 0

\* C14, the part that holds: for tries >= 1 reboot_now is entered only
\* after a probe has returned false.
Lem_C14_PositiveTries ==
    (tries >= 1 /\ RebootEntered) => \E i \in 1 .. Len(Rets) : Rets[i].a = 0

(* ------------------------------ C15 ----------------------------------- *)

\* positions of the per-attempt records in the trace
AttemptRecords == Idx("log", "available") \cup Idx("log", "unreachable")

\* the record main writes for the attempt whose has_internet call returned
\* at position i of the trace
RecordOf(i) ==
    IF trace[i].a = 1
    THEN Log("available", ProbeCallsUpTo(i), 0)
    ELSE Log("unreachable", ProbeCallsUpTo(i), tries)

ProbeSide ==
    {i \in 1 .. Len(trace) :
        trace[i].ch \in {"call", "ret"} /\ trace[i].what \in {"has_internet", "ping", "tcp", "sleep"}}

\* C16: a reboot command is run only in a run that is root (uid 0 reported
\* by geteuid/getuid) and not dry-run; systemctl is run at most once and
\* `reboot -f` at most once per run; once reboot_now is entered the run
\* never probes or sleeps again.
Thm_C16 ==
    LET sys == Idx("call", "systemctl")
        fb == Idx("call", "reboot")
    IN  /\ (sys \cup fb) # {} =>
            /\ is_root /\ ~dry_run
            /\ euid_func # "none" /\ euid_out = "zero"
        /\ Cardinality(sys) <= 1
        /\ Cardinality(fb) <= 1
        /\ RebootEntered => pc \in {"reboot_now", "systemctl", "fallback", "done"}
        /\ \A r \in Idx("log", "reboot") : \A j \in ProbeSide : j < r

\* a root run of three failed attempts in which both commands were run
Wit_C16 ==
    /\ Done
    /\ is_root
    /\ tries = 3
    /\ ProbeCalls = 3
    /\ Count("call", "systemctl") = 1
    /\ Count("call", "reboot") = 1

(* ------------------------------ C17 ----------------------------------- *)

\* r is an integer nearest to t tenths
Nearest(r, t) == 10 * r - t <= 5 /\ t - 10 * r <= 5

\* C17: the wait handed to ping (-W) is an integer >= 1; for a numeric
\* timeout it is max(1, r) for an integer r nearest to the timeout; for a
\* timeout that cannot be rounded (nan, inf) it is 1, and ping is still run.
Thm_C17 ==
    \A i \in Idx("call", "ping") :
        LET w == trace[i].a
            f == timeout.tenths \div 10
        IN  /\ w \in Nat
            /\ w >= 1
            /\ timeout.kind = "num" =>
                \E r \in {f, f + 1} : Nearest(r, timeout.tenths) /\ w = (IF r >= 1 THEN r ELSE 1)
            /\ timeout.kind # "num" => w = 1

\* --timeout nan: ping was run with -W 1 and answered
Wit_C17 ==
    /\ timeout = NaN
    /\ \E i \in Idx("call", "ping") : trace[i].a = 1 /\ trace[i].o = "reply"

\* --timeout 1.7: ping was run with -W 2
Wit_C17_Rounded ==
    /\ timeout = Num(17)
    /\ \E i \in Idx("call", "ping") : trace[i].a = 2

(* ------------------------------ C18 ----------------------------------- *)

\* C18: every connect of the fallback goes to args.port, or to 53 when
\* args.port is 0, and is given args.timeout itself, not the rounded wait
\* of ping.
Thm_C18 ==
    \A j \in Idx("call", "tcp") :
        /\ trace[j].a = (IF port = 0 THEN 53 ELSE port)
        /\ trace[j].t = timeout

\* --port 0 --timeout 0.4 without ping: the connect goes to port 53 with
\* 0.4 s (ping would have waited 1 s) and succeeds
Wit_C18 ==
    /\ port = 0
    /\ timeout = Num(4)
    /\ \E j \in Idx("call", "tcp") :
        /\ trace[j].a = 53
        /\ trace[j].t = Num(4)
        /\ trace[j].o = "connected"
        /\ trace[j - 1].a = 1

====
